---- MODULE Spec2Model ----
(***************************************************************************)
(* Model of the Merkle tree of src/main.rs: construction from a value      *)
(* sequence, the queries (root, leaf index, containment, proof generation, *)
(* proof verification) and add_element.                                    *)
(*                                                                         *)
(* Keccak-256 is modelled as an ideal (collision-free) hash: a digest is   *)
(* the marker -1 followed by the hashed input, so two digests are equal    *)
(* exactly when their inputs are.  Inputs are either the ByteWidth         *)
(* little-endian bytes of a scalar (all in 0..255) or the concatenation of *)
(* two digests (starting with the marker), so the encoding is prefix-free  *)
(* and concatenation of digests is injective, as it is for 32-byte         *)
(* digests.                                                                *)
(*                                                                         *)
(* Indices are 0-based as in the source; TLA+ sequences are 1-based, so    *)
(* the source's level[i] is level[i + 1] here.                             *)
(***************************************************************************)
EXTENDS Integers, Sequences, FiniteSets, TLC

\* ------------------------------------------------------------------ bounds

\* Longest value sequence handed to create_from_values.
MaxInit == 5

\* Most add_element calls on one tree.
MaxAdds == 2

\* Largest index handed to verify_proof.
MaxIndex == 3

\* Width in bytes of the scalar hashed by hash_one (element: u32).
ByteWidth == 4

\* Values the tree is built from and grown with (260 = 0x0104 spans two bytes).
Values == {3, 260}

\* Elements the queries are asked about: the values and one never inserted.
Elements == Values \cup {9}

VARIABLES
    levels,        \* MerkleTree.levels
    initial_vals,  \* the argument create_from_values was called with
    added,         \* the arguments of the add_element calls so far, in order
    prev_levels,   \* MerkleTree.levels as it was before the last add_element
    call,          \* the last query made ("none" before the first)
    result         \* what the last query returned

vars == <<levels, initial_vals, added, prev_levels, call, result>>

\* ------------------------------------------------------------ return values

\* Option<T>, bool and a panic (index out of bounds) as one shape.
Ret(tag, val) == [tag |-> tag, val |-> val]
NoneRet == Ret("None", <<>>)
PanicRet == Ret("Panic", <<>>)
SomeRet(x) == Ret("Some", x)
BoolRet(b) == Ret("Bool", b)

\* ------------------------------------------------------------ digest engine

\* Keccak256::digest as an ideal hash of a byte/digest string.
Keccak256(input) == <<-1>> \o input

\* <integer>::to_le_bytes for a ByteWidth-byte unsigned integer.
to_le_bytes(n) == [i \in 1..ByteWidth |-> (n \div (256 ^ (i - 1))) % 256]

hash_one(n) == Keccak256(to_le_bytes(n))

RECURSIVE ConcatAll(_)
\* The hasher's input after update() with each hash in turn.
ConcatAll(hashes) ==
    IF hashes = <<>> THEN <<>> ELSE Head(hashes) \o ConcatAll(Tail(hashes))

hash_multiple(hashes) == Keccak256(ConcatAll(hashes))

\* -------------------------------------------------------------- tree engine

\* Mutant of create_initial_level: a lone leaf is left as the root, unpadded.
create_initial_level_lone_leaf(vals) ==
    LET level == [i \in 1..Len(vals) |-> hash_one(vals[i])]
    IN  IF Len(level) > 1 /\ Len(level) % 2 = 1
        THEN Append(level, level[Len(level)])
        ELSE level

create_initial_level(vals) ==
    LET level == [i \in 1..Len(vals) |-> hash_one(vals[i])]
    IN  IF Len(level) % 2 = 1 THEN Append(level, level[Len(level)]) ELSE level

\* Mutant of calculate_next_level: an odd level is not padded.
calculate_next_level_unpadded(prev_level) ==
    IF prev_level = <<>> THEN <<>>
    ELSE [k \in 1..(Len(prev_level) \div 2) |->
             hash_multiple(<<prev_level[2 * k - 1], prev_level[2 * k]>>)]

calculate_next_level(prev_level) ==
    IF prev_level = <<>> THEN <<>>
    ELSE LET \* i ranges over (0..len-1).step_by(2): 0, 2, ... < len - 1
             pairs == Len(prev_level) \div 2
             next_level == [k \in 1..pairs |->
                               hash_multiple(<<prev_level[2 * k - 1], prev_level[2 * k]>>)]
         IN  IF Len(next_level) > 1 /\ Len(next_level) % 2 = 1
             THEN Append(next_level, next_level[Len(next_level)])
             ELSE next_level

RECURSIVE BuildUp(_)
\* while levels[i].len() > 1 { levels.push(calculate_next_level(&levels[i])) }
BuildUp(lv) ==
    IF Len(lv[Len(lv)]) > 1
    THEN BuildUp(Append(lv, calculate_next_level(lv[Len(lv)])))
    ELSE lv

create_from_values(vals) == BuildUp(<<create_initial_level(vals)>>)

height(lv) == Len(lv)

leafs(lv) == lv[1]

num_elements(lv) == Len(leafs(lv))

root(lv) ==
    IF lv = <<>> THEN NoneRet
    ELSE LET root_level == lv[Len(lv)]
         IN  IF Len(root_level) = 0 THEN PanicRet ELSE SomeRet(root_level[1])

leaf_index_for_element(lv, element) ==
    LET hash == hash_one(element)
        hits == {i \in 1..Len(leafs(lv)) : leafs(lv)[i] = hash}
    IN  IF hits = {} THEN NoneRet
        ELSE SomeRet((CHOOSE i \in hits : \A j \in hits : i <= j) - 1)

contains_hash(lv, hash) ==
    BoolRet(\E k \in 1..Len(lv) : \E i \in 1..Len(lv[k]) : lv[k][i] = hash)

\* Mutant of SiblingOf: the sibling is always taken on the right.
SiblingOf_always_right(index) == index + 1

\* The sibling position generate_proof reads at a level.
SiblingOf(index) == IF index % 2 = 0 THEN index + 1 ELSE index - 1

RECURSIVE ProofWalk(_, _, _, _)
\* The loop of generate_proof over levels 1..height-1, from level k on.
ProofWalk(lv, k, index, proof) ==
    IF k > height(lv) - 1 THEN SomeRet(proof)
    ELSE IF SiblingOf(index) >= Len(lv[k]) THEN PanicRet
    ELSE ProofWalk(lv, k + 1, index \div 2, Append(proof, lv[k][SiblingOf(index) + 1]))

generate_proof(lv, element) ==
    LET found == leaf_index_for_element(lv, element)
    IN  IF found.tag = "None" THEN NoneRet
        ELSE LET walked == ProofWalk(lv, 1, found.val, <<>>)
             IN  IF walked.tag = "Panic" THEN PanicRet
                 ELSE SomeRet([proof |-> walked.val, index |-> found.val])

RECURSIVE VerifyFold(_, _, _)
\* The loop of verify_proof: the hash after folding in every entry of proof.
VerifyFold(hash, index, proof) ==
    IF proof = <<>> THEN hash
    ELSE VerifyFold(IF index % 2 = 0
                    THEN hash_multiple(<<hash, Head(proof)>>)
                    ELSE hash_multiple(<<Head(proof), hash>>),
                    index \div 2, Tail(proof))

RECURSIVE FoldLeft(_, _)
\* The fold of the mutant below: the running hash always goes on the left.
FoldLeft(hash, proof) ==
    IF proof = <<>> THEN hash
    ELSE FoldLeft(hash_multiple(<<hash, Head(proof)>>), Tail(proof))

\* Mutant of verify_proof: the index is ignored.
verify_proof_ignoring_index(lv, element, index, proof) ==
    LET r == root(lv)
    IN  IF r.tag = "None" THEN BoolRet(FALSE)
        ELSE IF r.tag = "Panic" THEN PanicRet
        ELSE BoolRet(FoldLeft(hash_one(element), proof) = r.val)

verify_proof(lv, element, index, proof) ==
    LET r == root(lv)
    IN  IF r.tag = "None" THEN BoolRet(FALSE)
        ELSE IF r.tag = "Panic" THEN PanicRet
        ELSE BoolRet(VerifyFold(hash_one(element), index, proof) = r.val)

\* Mutant of add_element: the new leaf is never duplicated.
add_element_single_push(lv, element) ==
    BuildUp(<<Append(lv[1], hash_one(element))>>)

\* Mutant of add_element: the leaf level is filled with as many copies of the
\* new digest as it had leaves.
add_element_doubling(lv, element) ==
    BuildUp(<<lv[1] \o [i \in 1..Len(lv[1]) |-> hash_one(element)]>>)

add_element(lv, element) ==
    LET hash == hash_one(element)
        pushed == Append(lv[1], hash)
        level0 == IF Len(pushed) % 2 = 1 THEN Append(pushed, hash) ELSE pushed
    IN  BuildUp(<<level0>>)

\* ------------------------------------------------------------ state machine

RECURSIVE SeqsUpTo(_, _)
\* The sequences over S of length at most n.
SeqsUpTo(S, n) ==
    IF n = 0 THEN {<<>>}
    ELSE LET shorter == SeqsUpTo(S, n - 1)
         IN  shorter \cup {Append(s, x) : s \in shorter, x \in S}

\* Every digest stored at some level of lv.
DigestsOf(lv) == UNION {{lv[k][i] : i \in 1..Len(lv[k])} : k \in 1..Len(lv)}

\* The first digest of every non-empty level of lv (the root among them).
FirstDigests(lv) == {lv[k][1] : k \in {j \in 1..Len(lv) : lv[j] # <<>>}}

\* The proofs a caller holds: one generated for some value, or an empty one.
ProofFor(lv, src) ==
    LET g == generate_proof(lv, src)
    IN  IF g.tag = "Some" THEN g.val.proof ELSE <<>>

Init ==
    /\ initial_vals \in SeqsUpTo(Values, MaxInit)
    /\ levels = create_from_values(initial_vals)
    /\ added = <<>>
    /\ prev_levels = levels
    /\ call = "none"
    /\ result = NoneRet

AddElement ==
    /\ Len(added) < MaxAdds
    /\ \E element \in Values :
         /\ levels' = add_element(levels, element)
         /\ added' = Append(added, element)
    /\ prev_levels' = levels
    /\ call' = "none"
    /\ result' = NoneRet
    /\ UNCHANGED initial_vals

Root ==
    /\ call' = "root"
    /\ result' = root(levels)
    /\ UNCHANGED <<levels, initial_vals, added, prev_levels>>

LeafIndexForElement ==
    /\ call' = "leaf_index_for_element"
    /\ \E element \in Elements : result' = leaf_index_for_element(levels, element)
    /\ UNCHANGED <<levels, initial_vals, added, prev_levels>>

ContainsHash ==
    /\ call' = "contains_hash"
    /\ \E hash \in FirstDigests(levels) \cup {hash_one(e) : e \in Elements} :
         result' = contains_hash(levels, hash)
    /\ UNCHANGED <<levels, initial_vals, added, prev_levels>>

GenerateProof ==
    /\ call' = "generate_proof"
    /\ \E element \in Elements : result' = generate_proof(levels, element)
    /\ UNCHANGED <<levels, initial_vals, added, prev_levels>>

VerifyProof ==
    /\ call' = "verify_proof"
    /\ \E element \in Elements, src \in Values, index \in 0..MaxIndex :
         result' = verify_proof(levels, element, index, ProofFor(levels, src))
    /\ UNCHANGED <<levels, initial_vals, added, prev_levels>>

Next ==
    \/ AddElement
    \/ Root
    \/ LeafIndexForElement
    \/ ContainsHash
    \/ GenerateProof
    \/ VerifyProof

Spec == Init /\ [][Next]_vars

\* ------------------------------------------------------------------ helpers

\* The tree was built from at least one value.
NonEmptyStart == initial_vals # <<>>

\* The digest of v is one of the leaves.
InLeafs(lv, v) == \E i \in 1..Len(lv[1]) : lv[1][i] = hash_one(v)

IsTrue(r) == r.tag = "Bool" /\ r.val
IsFalse(r) == r.tag = "Bool" /\ ~r.val

\* The element added by the last add_element call.
LastAdded == added[Len(added)]

RECURSIVE CeilLog2(_)
\* The least k with 2^k >= n, for n >= 1.
CeilLog2(n) == IF n <= 1 THEN 0 ELSE 1 + CeilLog2((n + 1) \div 2)

IsPowerOfTwo(n) == n >= 1 /\ 2 ^ CeilLog2(n) = n

\* seq followed by n copies of x.
WithCopies(seq, n, x) == seq \o [i \in 1..n |-> x]

\* -------------------------------------------------------------------- C1

\* C1: in every tree built from a non-empty sequence and grown by any number
\* of add_element calls, for every value whose digest is a leaf,
\* generate_proof returns a (proof, index) pair and verify_proof of that
\* value, index and proof against the tree's current root returns true.
C1_GeneratedProofVerifies ==
    NonEmptyStart =>
        \A v \in Elements :
            InLeafs(levels, v) =>
                LET g == generate_proof(levels, v)
                IN  /\ g.tag = "Some"
                    /\ IsTrue(verify_proof(levels, v, g.val.index, g.val.proof))

\* A grown tree in which a value sitting at an odd leaf index has a proof of
\* three siblings that verifies.
C1_Witness ==
    /\ NonEmptyStart
    /\ added # <<>>
    /\ \E v \in Elements :
         /\ InLeafs(levels, v)
         /\ LET g == generate_proof(levels, v)
            IN  /\ g.tag = "Some"
                /\ g.val.index % 2 = 1
                /\ Len(g.val.proof) = 3
                /\ IsTrue(verify_proof(levels, v, g.val.index, g.val.proof))

\* -------------------------------------------------------------------- C2

\* The digests a forged proof entry is drawn from.
TamperDigests(lv) == DigestsOf(lv) \cup {hash_one(e) : e \in Elements}

\* The parity verify_proof looks at when it folds in proof entry k (k >= 1).
ParityAt(index, k) == (index \div (2 ^ (k - 1))) % 2

\* The hash verify_proof holds just before it folds in proof entry k.
HashBefore(v, index, proof, k) ==
    VerifyFold(hash_one(v), index, SubSeq(proof, 1, k - 1))

\* C2 as stated: with (proof, index) = generate_proof(v), verify_proof returns
\* false for every triple that differs from (v, index, proof) in the element
\* (one with a different digest), in the index (any other non-negative
\* integer) or in one proof entry (a different digest).
C2_AnyTamperingRejected ==
    \A v \in Elements :
        LET g == generate_proof(levels, v)
        IN  g.tag = "Some" =>
            LET p == g.val.proof
                i == g.val.index
            IN  /\ \A e \in Elements :
                     hash_one(e) # hash_one(v) => IsFalse(verify_proof(levels, e, i, p))
                /\ \A j \in 0..MaxIndex :
                     j # i => IsFalse(verify_proof(levels, v, j, p))
                /\ \A k \in 1..Len(p) : \A d \in TamperDigests(levels) :
                     d # p[k] => IsFalse(verify_proof(levels, v, i, [p EXCEPT ![k] = d]))

\* C2 amended: a replaced element or a replaced proof entry is always
\* rejected; a replaced index j is rejected exactly when, at some proof step,
\* j and the original index have different parity and the proof entry of that
\* step differs from the hash accumulated so far.  Any other j (one that
\* differs only above the proof's length, or only where the sibling equals
\* the accumulated hash, as for a duplicated leaf) is accepted.
C2_TamperingRejectedUpToIndexAliases ==
    \A v \in Elements :
        LET g == generate_proof(levels, v)
        IN  g.tag = "Some" =>
            LET p == g.val.proof
                i == g.val.index
            IN  /\ \A e \in Elements :
                     hash_one(e) # hash_one(v) => IsFalse(verify_proof(levels, e, i, p))
                /\ \A j \in 0..MaxIndex :
                     LET r == verify_proof(levels, v, j, p)
                         swapped == \E k \in 1..Len(p) :
                                       /\ ParityAt(j, k) # ParityAt(i, k)
                                       /\ p[k] # HashBefore(v, i, p, k)
                     IN  IF swapped THEN IsFalse(r) ELSE IsTrue(r)
                /\ \A k \in 1..Len(p) : \A d \in TamperDigests(levels) :
                     d # p[k] => IsFalse(verify_proof(levels, v, i, [p EXCEPT ![k] = d]))

\* verify_proof has just rejected a triple on a tree where a generated proof
\* of two entries is rejected at one foreign index and accepted at another.
C2_Witness ==
    \E v \in Elements :
        LET g == generate_proof(levels, v)
        IN  /\ g.tag = "Some"
            /\ Len(g.val.proof) = 2
            /\ call = "verify_proof"
            /\ IsFalse(result)
            /\ \E j \in 0..MaxIndex :
                 /\ j # g.val.index
                 /\ IsFalse(verify_proof(levels, v, j, g.val.proof))
            /\ \E j \in 0..MaxIndex :
                 /\ j # g.val.index
                 /\ IsTrue(verify_proof(levels, v, j, g.val.proof))

\* -------------------------------------------------------------------- C3

\* C3: for every tree built from a non-empty sequence (and after any earlier
\* appends) and every value v, the root after add_element(v) differs from the
\* root before it, also when v is already among the leaves.
C3_AddElementChangesRoot ==
    (NonEmptyStart /\ added # <<>>) => root(levels) # root(prev_levels)

\* -------------------------------------------------------------------- C4

\* C4 as stated: when the leaf count n is a power of two, add_element appends
\* n copies of the value's digest to the leaf level, so the count doubles.
C4_PowerOfTwoAppendDoubles ==
    (added # <<>> /\ IsPowerOfTwo(num_elements(prev_levels))) =>
        /\ leafs(levels) = WithCopies(leafs(prev_levels), num_elements(prev_levels),
                                      hash_one(LastAdded))
        /\ num_elements(levels) = 2 * num_elements(prev_levels)

\* C4 amended: when the leaf count n is a power of two, add_element appends
\* two copies of the value's digest, so the count becomes n + 2 (a 4-leaf
\* tree has 6 leaves after one append); it doubles only for n = 2.
C4_PowerOfTwoAppendAddsTwo ==
    (added # <<>> /\ IsPowerOfTwo(num_elements(prev_levels))) =>
        /\ leafs(levels) = WithCopies(leafs(prev_levels), 2, hash_one(LastAdded))
        /\ num_elements(levels) = num_elements(prev_levels) + 2
        /\ (num_elements(levels) = 2 * num_elements(prev_levels))
               <=> (num_elements(prev_levels) = 2)

\* A 4-leaf tree that has 6 leaves after one add_element.
C4_Witness ==
    /\ added # <<>>
    /\ num_elements(prev_levels) = 4
    /\ num_elements(levels) = 6

\* -------------------------------------------------------------------- C5

\* C5: add_element(v) leaves the existing leaves in place and makes the leaf
\* level the old one followed by exactly two copies of hash_one(v): the leaf
\* count grows by exactly 2, stays even, and the last two leaves are equal.
C5_AddElementAppendsPair ==
    added # <<>> =>
        LET old == leafs(prev_levels)
            new == leafs(levels)
        IN  /\ Len(new) = Len(old) + 2
            /\ SubSeq(new, 1, Len(old)) = old
            /\ new = old \o <<hash_one(LastAdded), hash_one(LastAdded)>>
            /\ Len(new) % 2 = 0
            /\ new[Len(new)] = new[Len(new) - 1]

\* A second add_element that took a tree from 8 leaves to 10.
C5_Witness ==
    /\ Len(added) = 2
    /\ num_elements(prev_levels) = 8
    /\ num_elements(levels) = 10

\* -------------------------------------------------------------------- C6

\* The stored levels end at the first level of length 1.
EndsAtFirstSingleton(lv) ==
    /\ Len(lv[Len(lv)]) = 1
    /\ \A k \in 1..(Len(lv) - 1) : Len(lv[k]) # 1

\* C6 as stated: for every level k with more than one digest the next level
\* has ceil(len(levels[k]) / 2) digests, and the levels end at the first level
\* of length 1.
C6_NextLevelIsCeilHalf ==
    NonEmptyStart =>
        /\ \A k \in 1..Len(levels) :
             Len(levels[k]) > 1 =>
                 /\ k < Len(levels)
                 /\ Len(levels[k + 1]) = (Len(levels[k]) + 1) \div 2
        /\ EndsAtFirstSingleton(levels)

\* Half of n, raised to the next even number when it is odd and above 1.
PaddedHalf(n) ==
    LET half == n \div 2 IN IF half > 1 /\ half % 2 = 1 THEN half + 1 ELSE half

\* C6 amended: for every level k with more than one digest the next level has
\* len(levels[k]) / 2 digests, plus one when that half is odd and greater than
\* 1 (the duplicated last entry), and the levels end at the first level of
\* length 1.
C6_NextLevelIsPaddedHalf ==
    NonEmptyStart =>
        /\ \A k \in 1..Len(levels) :
             Len(levels[k]) > 1 =>
                 /\ k < Len(levels)
                 /\ Len(levels[k + 1]) = PaddedHalf(Len(levels[k]))
        /\ EndsAtFirstSingleton(levels)

\* A grown tree with levels of 10, 6, 4, 2 and 1 digests.
C6_Witness ==
    /\ NonEmptyStart
    /\ added # <<>>
    /\ [k \in 1..Len(levels) |-> Len(levels[k])] = <<10, 6, 4, 2, 1>>

\* -------------------------------------------------------------------- C7

\* C7: for every non-empty value sequence, the height of the tree
\* create_from_values builds is 1 + ceil(log2(n)), n the length of the stored
\* (padded) leaf level.  Checked on every reachable tree: add_element rebuilds
\* the levels from the leaf level exactly as create_from_values builds them.
C7_HeightIsOnePlusCeilLog2 ==
    NonEmptyStart => height(levels) = 1 + CeilLog2(num_elements(levels))

\* A tree just built from five values: six leaves and height 4.
C7_Witness ==
    /\ added = <<>>
    /\ Len(initial_vals) = 5
    /\ num_elements(levels) = 6
    /\ height(levels) = 4

\* -------------------------------------------------------------------- C8

\* The tree holds no root digest.
NoRootDigest(lv) == lv = <<>> \/ lv[Len(lv)] = <<>>

\* C8: on every tree built from any value sequence, the empty one included,
\* and grown by any add_element calls, no query faults; root returns absent
\* and verify_proof returns false when the tree holds no root digest.
C8_QueriesNeverFault ==
    /\ result.tag # "Panic"
    /\ (call = "root" /\ NoRootDigest(levels)) => result = NoneRet
    /\ (call = "verify_proof" /\ NoRootDigest(levels)) => result = BoolRet(FALSE)

\* -------------------------------------------------------------------- C9

\* C9 as stated: a sequence of exactly one value yields leaf count 1, height
\* 1, the root equal to the leaf's digest and an empty proof for that value;
\* for every other input length the leaf count is even.
C9_SingleValueIsSingleLeaf ==
    added = <<>> =>
        /\ Len(initial_vals) = 1 =>
             /\ num_elements(levels) = 1
             /\ height(levels) = 1
             /\ root(levels) = SomeRet(hash_one(initial_vals[1]))
             /\ generate_proof(levels, initial_vals[1])
                    = SomeRet([proof |-> <<>>, index |-> 0])
        /\ Len(initial_vals) # 1 => num_elements(levels) % 2 = 0

\* C9 amended: a sequence of exactly one value yields two equal leaves (the
\* value's digest and its duplicate), height 2, the root equal to the
\* combination of the digest with itself, and a one-entry proof (that digest)
\* at index 0; for every input length, 1 included, the leaf count is even.
C9_SingleValueIsDuplicated ==
    added = <<>> =>
        /\ Len(initial_vals) = 1 =>
             LET h == hash_one(initial_vals[1])
             IN  /\ leafs(levels) = <<h, h>>
                 /\ height(levels) = 2
                 /\ root(levels) = SomeRet(hash_multiple(<<h, h>>))
                 /\ generate_proof(levels, initial_vals[1])
                        = SomeRet([proof |-> <<h>>, index |-> 0])
        /\ num_elements(levels) % 2 = 0

\* generate_proof has just answered for the one value of a one-value tree.
C9_Witness ==
    /\ added = <<>>
    /\ Len(initial_vals) = 1
    /\ call = "generate_proof"
    /\ result.tag = "Some"
    /\ result.val.proof = <<hash_one(initial_vals[1])>>

\* ------------------------------------------------------------------- C10

\* C10: in every tree built from a non-empty sequence and grown by any number
\* of add_element calls, every level but the last has even length of at least
\* 2 and the last has length 1, so on the walk of generate_proof from any
\* leaf the sibling position lies within the level and index / 2 lies within
\* the next level.
C10_SiblingsInBounds ==
    NonEmptyStart =>
        /\ \A k \in 1..(Len(levels) - 1) :
             Len(levels[k]) % 2 = 0 /\ Len(levels[k]) >= 2
        /\ Len(levels[Len(levels)]) = 1
        /\ \A leaf \in 0..(num_elements(levels) - 1) :
             \A k \in 1..(Len(levels) - 1) :
                 LET index == leaf \div (2 ^ (k - 1))
                 IN  /\ SiblingOf(index) \in 0..(Len(levels[k]) - 1)
                     /\ index \div 2 \in 0..(Len(levels[k + 1]) - 1)
        /\ \A v \in Elements : generate_proof(levels, v).tag # "Panic"

\* generate_proof has just walked a grown tree that has a padded inner level
\* (10 leaves, then 6 digests) and returned four siblings.
C10_Witness ==
    /\ NonEmptyStart
    /\ added # <<>>
    /\ Len(levels) = 5
    /\ Len(levels[2]) = 6
    /\ call = "generate_proof"
    /\ result.tag = "Some"
    /\ Len(result.val.proof) = 4

====
